---- MODULE Spec2Model ----
(***************************************************************************)
(* A model of src/web/renderer_host.js: the command interpreter (exec),    *)
(* the atlas registry, the camera / host-scale transform and the tile-UV   *)
(* calculator of the WebGL renderer host.                                  *)
(*                                                                         *)
(* Numbers.  JavaScript numbers that the code only adds and multiplies     *)
(* (positions, sizes, tile indices) are integers.  Numbers that come out   *)
(* of a division (1/width, physW/logicalW, byte/255) are exact rationals   *)
(* <<n, d>> in lowest terms with d >= 0; d = 0 encodes the IEEE values the *)
(* code can produce by dividing by zero: <<1,0>> is +Infinity, <<-1,0>> is *)
(* -Infinity and <<0,0>> is NaN.  A rational stands for the double (and,   *)
(* in a Float32Array, the float) nearest to it.                            *)
(* A packed RGBA8 uint32 n is the pair <<n div 65536, n mod 65536>> of its *)
(* two 16-bit halves.                                                      *)
(***************************************************************************)
EXTENDS Integers, Sequences, FiniteSets, TLC

VARIABLES
    atlases,    \* the Map id -> { tex, width, height, cols, rows, tileW, tileH, uv, ready }
    nextTex,    \* the handle the next gl.createTexture() returns
    camWasm,    \* row-major mat3 built by the last set-camera
    physW,      \* physical backing size the host believes in
    physH,
    logicalW,   \* logical size
    logicalH,
    canvas,     \* the canvas element's backing size [width, height]
    gl,         \* the WebGL context state the host writes and drawArrays reads
    commands,   \* the list the last exec call was given (kept by SpecList and SpecDraw)
    status,     \* "idle", or how the last exec call ended: "returned" | "thrown"
    done,       \* the number of commands the last exec call ran to completion
    log,        \* the backend operations the last exec call emitted, in order
    lastLife    \* per atlas id, where the commands executed so far have put it

vars == <<atlases, nextTex, camWasm, physW, physH, logicalW, logicalH, canvas,
          gl, commands, status, done, log, lastLife>>

----------------------------------------------------------------------------
(* Bounds of the model *)

\* atlas ids are 1..MaxId
MaxId == 2
\* tile indices of draw commands are 0..MaxTile
MaxTile == 5
\* grid-w and grid-h of draw-tiles are 0..MaxGrid
MaxGrid == 3
\* SpecList gives exec lists of at most MaxCmds commands
MaxCmds == 3

Ids == 1..MaxId

----------------------------------------------------------------------------
(* Exact rational arithmetic standing for the code's double arithmetic *)

Abs(n) == IF n < 0 THEN -n ELSE n
Sign(n) == IF n < 0 THEN -1 ELSE IF n > 0 THEN 1 ELSE 0
Max(a, b) == IF a >= b THEN a ELSE b

RECURSIVE GCD(_, _)
GCD(a, b) == IF b = 0 THEN a ELSE GCD(b, a % b)

\* n/d in lowest terms, d >= 0; x/0 is +-Infinity or NaN
Q(n, d) ==
    IF d = 0 THEN <<Sign(n), 0>>
    ELSE LET g == GCD(Abs(n), Abs(d))
             s == Sign(d)
         IN  <<(s * n) \div g, (s * d) \div g>>

QInt(n) == <<n, 1>>
QNaN == <<0, 0>>
QIsFinite(q) == q[2] # 0

\* a * b on doubles: Infinity * 0 = NaN, Infinity * x = +-Infinity
QMul(a, b) == Q(a[1] * b[1], a[2] * b[2])

\* a + b on doubles: Infinity + x = Infinity, Infinity - Infinity = NaN
QAdd(a, b) ==
    IF a[2] = 0 /\ b[2] = 0
    THEN (IF a = b THEN a ELSE QNaN)
    ELSE Q(a[1] * b[2] + b[1] * a[2], a[2] * b[2])

\* a / b for integers a, b
QDiv(a, b) == Q(a, b)

QNeg(a) == <<-a[1], a[2]>>

----------------------------------------------------------------------------
(* utils *)

\* rgba8 with the bytes taken in the reverse order (alpha highest)
rgba8_abgr(n) ==
    << QDiv(n[2] % 256, 255), QDiv(n[2] \div 256, 255),
       QDiv(n[1] % 256, 255), QDiv(n[1] \div 256, 255) >>

\* rgba8: (n>>>24)&255, (n>>>16)&255, (n>>>8)&255, n&255, each over 255;
\* n is the pair <<high half, low half>> of a uint32
rgba8(n) ==
    << QDiv(n[1] \div 256, 255), QDiv(n[1] % 256, 255),
       QDiv(n[2] \div 256, 255), QDiv(n[2] % 256, 255) >>

\* the value `undefined` of a missing payload or field
Undefined == [k |-> "undefined"]
IsUndefined(v) == v.k = "undefined"

----------------------------------------------------------------------------
(* helpers: matrices & UVs *)

\* Math.cos and Math.sin; the model's rotations are the angle 0 only, the
\* one angle whose cosine and sine are exact in doubles
Cos(r) == CASE r = 0 -> QInt(1)
Sin(r) == CASE r = 0 -> QInt(0)

buildCamFromParams(o) ==
    LET c == Cos(o.rotation)
        s == Sin(o.rotation)
        sx == QInt(o.scale)
        sy == QInt(o.scale)
    IN  << QMul(c, sx), QMul(QNeg(s), sy), QInt(o.originX),
           QMul(s, sx), QMul(c, sy),       QInt(o.originY),
           QInt(0),     QInt(0),           QInt(1) >>

hostScaleMat3(h) ==
    LET sx == QDiv(h.physW, h.logicalW)
        sy == QDiv(h.physH, h.logicalH)
    IN  << sx, QInt(0), QInt(0),
           QInt(0), sy, QInt(0),
           QInt(0), QInt(0), QInt(1) >>

\* row r (0..2) of A times column c (0..2) of B, as the code's sums
Dot3(A, B, r, c) ==
    QAdd(QAdd(QMul(A[3*r + 1], B[c + 1]), QMul(A[3*r + 2], B[c + 4])),
         QMul(A[3*r + 3], B[c + 7]))

mul3x3(A, B) ==
    << Dot3(A, B, 0, 0), Dot3(A, B, 0, 1), Dot3(A, B, 0, 2),
       Dot3(A, B, 1, 0), Dot3(A, B, 1, 1), Dot3(A, B, 1, 2),
       Dot3(A, B, 2, 0), Dot3(A, B, 2, 1), Dot3(A, B, 2, 2) >>

\* flip & 1 and flip & 2 of a flip mask
FlipX(flip) == flip % 2 = 1
FlipY(flip) == (flip \div 2) % 2 = 1

\* TileRect with the row taken from the number of rows, not of columns
TileRect_rowsForCols(e, tileIndex, flip) ==
    LET cx == tileIndex % e.cols
        cy == tileIndex \div e.rows
        u0 == QMul(QInt(cx * e.tileW), e.uv.u)
        v0 == QMul(QInt(cy * e.tileH), e.uv.v)
        u1 == QMul(QInt((cx + 1) * e.tileW), e.uv.u)
        v1 == QMul(QInt((cy + 1) * e.tileH), e.uv.v)
        fx == FlipX(flip)
        fy == FlipY(flip)
    IN  << IF fx THEN u1 ELSE u0, IF fy THEN v1 ELSE v0,
           IF fx THEN u0 ELSE u1, IF fy THEN v0 ELSE v1 >>

\* TileRect with the vertical flip read from bit 0 as well
TileRect_flipBit0(e, tileIndex, flip) ==
    LET cx == tileIndex % e.cols
        cy == tileIndex \div e.cols
        u0 == QMul(QInt(cx * e.tileW), e.uv.u)
        v0 == QMul(QInt(cy * e.tileH), e.uv.v)
        u1 == QMul(QInt((cx + 1) * e.tileW), e.uv.u)
        v1 == QMul(QInt((cy + 1) * e.tileH), e.uv.v)
        fx == FlipX(flip)
        fy == FlipX(flip)
    IN  << IF fx THEN u1 ELSE u0, IF fy THEN v1 ELSE v0,
           IF fx THEN u0 ELSE u1, IF fy THEN v0 ELSE v1 >>

\* the rectangle <<uu0, vv0, uu1, vv1>> setTileUV computes
TileRect(e, tileIndex, flip) ==
    LET cx == tileIndex % e.cols
        cy == tileIndex \div e.cols
        u0 == QMul(QInt(cx * e.tileW), e.uv.u)
        v0 == QMul(QInt(cy * e.tileH), e.uv.v)
        u1 == QMul(QInt((cx + 1) * e.tileW), e.uv.u)
        v1 == QMul(QInt((cy + 1) * e.tileH), e.uv.v)
        fx == FlipX(flip)
        fy == FlipY(flip)
        uu0 == IF fx THEN u1 ELSE u0
        uu1 == IF fx THEN u0 ELSE u1
        vv0 == IF fy THEN v1 ELSE v0
        vv1 == IF fy THEN v0 ELSE v1
    IN  <<uu0, vv0, uu1, vv1>>

\* the six vertices written to the uv buffer for a rectangle
QuadUV(r) ==
    << r[1], r[2],  r[3], r[2],  r[1], r[4],
       r[3], r[2],  r[3], r[4],  r[1], r[4] >>

\* setTileUV: bufferData of the uv buffer with the tile's six vertices
setTileUV(h, e, tileIndex, flip) ==
    [h EXCEPT !.gl.uvData = QuadUV(TileRect(e, tileIndex, flip))]

----------------------------------------------------------------------------
(* The host state a command handler reads and writes: the closure variables *)
(* of createRendererHost and the gl context, with the operations emitted   *)
(* so far (out), whether a handler threw (err) and the number of commands  *)
(* completed (n).                                                          *)

Emit(h, o) == [h EXCEPT !.out = Append(@, o)]
Throw(h) == [h EXCEPT !.err = TRUE]

Has(m, id) == id \in DOMAIN m
Put(m, id, e) == [x \in DOMAIN m \cup {id} |-> IF x = id THEN e ELSE m[x]]

----------------------------------------------------------------------------
(* WebGL command handlers *)

cmd_begin_frame(h, clear) ==
    LET h1 == IF ~IsUndefined(clear)
              THEN Emit([h EXCEPT !.gl.clearColor = rgba8(clear.n)],
                        [op |-> "clearColor", color |-> rgba8(clear.n)])
              ELSE h
    IN  Emit(h1, [op |-> "clear", color |-> h1.gl.clearColor])

cmd_set_blend(h, mode) ==
    LET m == IF IsUndefined(mode) THEN "undefined" ELSE mode.s
        h1 == Emit([h EXCEPT !.gl.blend = TRUE], [op |-> "enable", cap |-> "BLEND"])
        f == CASE m = "alpha"    -> <<"SRC_ALPHA", "ONE_MINUS_SRC_ALPHA", "ONE", "ONE_MINUS_SRC_ALPHA">>
               [] m = "additive" -> <<"SRC_ALPHA", "ONE", "SRC_ALPHA", "ONE">>
               [] m = "multiply" -> <<"DST_COLOR", "ONE_MINUS_SRC_ALPHA", "DST_COLOR", "ONE_MINUS_SRC_ALPHA">>
               [] OTHER          -> h.gl.blendFunc
    IN  IF m = "none"
        THEN Emit([h EXCEPT !.gl.blend = FALSE], [op |-> "disable", cap |-> "BLEND"])
        ELSE IF m \in {"alpha", "additive", "multiply"}
             THEN Emit([h1 EXCEPT !.gl.blendFunc = f], [op |-> "blendFunc", func |-> f])
             ELSE h1

cmd_set_camera(h, cam) ==
    IF IsUndefined(cam) THEN Throw(h)
    ELSE [h EXCEPT !.camWasm = buildCamFromParams(cam)]

\* cmd_create_atlas allocating a texture on every call
cmd_create_atlas_newTex(h, a) ==
    IF IsUndefined(a) THEN Throw(h)
    ELSE
    LET tex == h.nextTex
        e == [ width |-> a.width, height |-> a.height,
               cols |-> a.cols, rows |-> a.rows,
               tileW |-> a.tileW, tileH |-> a.tileH,
               uv |-> [u |-> QDiv(1, a.width), v |-> QDiv(1, a.height)],
               ready |-> FALSE,
               tex |-> tex ]
        h1 == Emit([h EXCEPT !.nextTex = @ + 1], [op |-> "createTexture", tex |-> tex])
        h2 == [h1 EXCEPT !.atlases = Put(@, a.id, e),
                         !.gl.texture2D = tex,
                         !.gl.unpackAlignment = 1]
        filt == IF a.filter = "linear" THEN "LINEAR" ELSE "NEAREST"
        wrap == IF a.wrap = "repeat" THEN "REPEAT" ELSE "CLAMP_TO_EDGE"
        h3 == Emit(h2, [op |-> "texParameters", tex |-> tex,
                        params |-> <<filt, filt, wrap, wrap>>])
    IN  Emit(h3, [op |-> "texImage2D", tex |-> tex, size |-> <<a.width, a.height>>])

cmd_create_atlas(h, a) ==
    IF IsUndefined(a) THEN Throw(h)
    ELSE
    LET old == Has(h.atlases, a.id)
        tex == IF old THEN h.atlases[a.id].tex ELSE h.nextTex
        e == [ width |-> a.width, height |-> a.height,
               cols |-> a.cols, rows |-> a.rows,
               tileW |-> a.tileW, tileH |-> a.tileH,
               uv |-> [u |-> QDiv(1, a.width), v |-> QDiv(1, a.height)],
               ready |-> FALSE,
               tex |-> tex ]
        h1 == IF old THEN h
              ELSE Emit([h EXCEPT !.nextTex = @ + 1], [op |-> "createTexture", tex |-> tex])
        h2 == [h1 EXCEPT !.atlases = Put(@, a.id, e),
                         !.gl.texture2D = tex,
                         !.gl.unpackAlignment = 1]
        filt == IF a.filter = "linear" THEN "LINEAR" ELSE "NEAREST"
        wrap == IF a.wrap = "repeat" THEN "REPEAT" ELSE "CLAMP_TO_EDGE"
        h3 == Emit(h2, [op |-> "texParameters", tex |-> tex,
                        params |-> <<filt, filt, wrap, wrap>>])
    IN  Emit(h3, [op |-> "texImage2D", tex |-> tex, size |-> <<a.width, a.height>>])

\* cmd_upload_atlas_chunk marking the atlas ready once a chunk is written
cmd_upload_atlas_chunk_ready(h, c) ==
    IF IsUndefined(c) THEN Throw(h)
    ELSE IF ~Has(h.atlases, c.id) THEN h
    ELSE LET e == h.atlases[c.id]
             h1 == [h EXCEPT !.gl.texture2D = e.tex, !.gl.unpackAlignment = 1,
                             !.atlases[c.id].ready = TRUE]
         IN  Emit(h1, [op |-> "texSubImage2D", tex |-> e.tex,
                       rect |-> <<c.x, c.y, c.w, c.h>>, data |-> c.data])

\* cmd_upload_atlas_chunk writing the chunk whether or not the id is known
cmd_upload_atlas_chunk_noLookup(h, c) ==
    IF IsUndefined(c) THEN Throw(h)
    ELSE LET tex == IF Has(h.atlases, c.id) THEN h.atlases[c.id].tex ELSE 0
             h1 == [h EXCEPT !.gl.texture2D = tex, !.gl.unpackAlignment = 1]
         IN  Emit(h1, [op |-> "texSubImage2D", tex |-> tex,
                       rect |-> <<c.x, c.y, c.w, c.h>>, data |-> c.data])

cmd_upload_atlas_chunk(h, c) ==
    IF IsUndefined(c) THEN Throw(h)
    ELSE IF ~Has(h.atlases, c.id) THEN h
    ELSE LET e == h.atlases[c.id]
             h1 == [h EXCEPT !.gl.texture2D = e.tex, !.gl.unpackAlignment = 1]
         IN  Emit(h1, [op |-> "texSubImage2D", tex |-> e.tex,
                       rect |-> <<c.x, c.y, c.w, c.h>>, data |-> c.data])

\* cmd_finalize_atlas flipping the flag of the named atlas
cmd_finalize_atlas_toggle(h, id) ==
    IF ~IsUndefined(id) /\ Has(h.atlases, id.id)
    THEN [h EXCEPT !.atlases[id.id].ready = ~@]
    ELSE h

\* cmd_finalize_atlas marking every atlas of the registry ready
cmd_finalize_atlas_all(h, id) ==
    IF ~IsUndefined(id) /\ Has(h.atlases, id.id)
    THEN [h EXCEPT !.atlases = [x \in DOMAIN @ |-> [@[x] EXCEPT !.ready = TRUE]]]
    ELSE h

\* the payload of finalize-atlas is the id itself; a missing one is the key
\* `undefined`, which no create-atlas of the model stores
cmd_finalize_atlas(h, id) ==
    IF ~IsUndefined(id) /\ Has(h.atlases, id.id)
    THEN [h EXCEPT !.atlases[id.id].ready = TRUE]
    ELSE h

\* gl.drawArrays(gl.TRIANGLES, 0, 6): the draw call reads the context state
drawArrays(h) ==
    Emit(h, [op |-> "drawArrays", tex |-> h.gl.texture2D, uvData |-> h.gl.uvData,
             rect |-> h.gl.u_rect, cam |-> h.gl.u_cam, screen |-> h.gl.u_screen,
             tint |-> h.gl.u_tint, program |-> h.gl.program, vao |-> h.gl.vao])

\* the shared lines with the camera left out of the composed matrix
DrawSetup_hostScaleOnly(h) ==
    [h EXCEPT !.gl.program = "prog", !.gl.vao = "vao",
              !.gl.u_screen = <<h.physW, h.physH>>,
              !.gl.u_cam = hostScaleMat3(h),
              !.gl.u_tex = 0]

\* the lines both draw handlers share: useProgram, bindVertexArray, the
\* composed camera and the u_screen, u_cam, u_tex uniforms
DrawSetup(h) ==
    LET cam == mul3x3(hostScaleMat3(h), h.camWasm)
    IN  [h EXCEPT !.gl.program = "prog", !.gl.vao = "vao",
                  !.gl.u_screen = <<h.physW, h.physH>>,
                  !.gl.u_cam = cam,
                  !.gl.u_tex = 0]

\* drawSprite without the test of e.ready
drawSprite_noReady(h, s) ==
    IF IsUndefined(s) THEN Throw(h)
    ELSE IF ~Has(h.atlases, s.atlasId) THEN h
    ELSE LET e == h.atlases[s.atlasId]
             h1 == [DrawSetup(h) EXCEPT !.gl.u_tint = rgba8(s.tint)]
             h2 == setTileUV(h1, e, s.tileIndex, s.flip)
             h3 == [h2 EXCEPT !.gl.activeTexture = 0,
                              !.gl.texture2D = e.tex,
                              !.gl.u_rect = <<s.x, s.y, e.tileW, e.tileH>>]
         IN  drawArrays(h3)

\* drawSprite without gl.bindTexture: the draw reads the texture bound last
drawSprite_noBind(h, s) ==
    IF IsUndefined(s) THEN Throw(h)
    ELSE IF ~Has(h.atlases, s.atlasId) \/ ~h.atlases[s.atlasId].ready THEN h
    ELSE LET e == h.atlases[s.atlasId]
             h1 == [DrawSetup(h) EXCEPT !.gl.u_tint = rgba8(s.tint)]
             h2 == setTileUV(h1, e, s.tileIndex, s.flip)
             h3 == [h2 EXCEPT !.gl.activeTexture = 0,
                              !.gl.u_rect = <<s.x, s.y, e.tileW, e.tileH>>]
         IN  drawArrays(h3)

drawSprite(h, s) ==
    IF IsUndefined(s) THEN Throw(h)
    ELSE IF ~Has(h.atlases, s.atlasId) \/ ~h.atlases[s.atlasId].ready THEN h
    ELSE LET e == h.atlases[s.atlasId]
             h1 == [DrawSetup(h) EXCEPT !.gl.u_tint = rgba8(s.tint)]
             h2 == setTileUV(h1, e, s.tileIndex, s.flip)
             h3 == [h2 EXCEPT !.gl.activeTexture = 0,
                              !.gl.texture2D = e.tex,
                              !.gl.u_rect = <<s.x, s.y, e.tileW, e.tileH>>]
         IN  drawArrays(h3)

\* TileCell reading the tiles array column by column
TileCell_colMajor(h, e, t, gx, gy) ==
    IF ~t.hasTiles THEN Throw(h)
    ELSE LET idx == t.tiles[gx * t.gridH + gy + 1]
             h1 == setTileUV(h, e, idx, 0)
             h2 == [h1 EXCEPT !.gl.activeTexture = 0,
                              !.gl.texture2D = e.tex,
                              !.gl.u_rect = <<t.x + gx * t.cellW, t.y + gy * t.cellH,
                                              t.cellW, t.cellH>>]
         IN  drawArrays(h2)

\* the body of the inner loop of drawTiles for cell (gx, gy); reading
\* t.tiles[...] of a command without a tiles array throws
TileCell(h, e, t, gx, gy) ==
    IF ~t.hasTiles THEN Throw(h)
    ELSE LET idx == t.tiles[gy * t.gridW + gx + 1]
             h1 == setTileUV(h, e, idx, 0)
             h2 == [h1 EXCEPT !.gl.activeTexture = 0,
                              !.gl.texture2D = e.tex,
                              !.gl.u_rect = <<t.x + gx * t.cellW, t.y + gy * t.cellH,
                                              t.cellW, t.cellH>>]
         IN  drawArrays(h2)

\* for (gx = from; gx < grid-w; gx++)
RECURSIVE TileRow(_, _, _, _, _)
TileRow(h, e, t, gx, gy) ==
    IF h.err \/ ~(gx < t.gridW) THEN h
    ELSE TileRow(TileCell(h, e, t, gx, gy), e, t, gx + 1, gy)

\* for (gy = from; gy < grid-h; gy++)
RECURSIVE TileRows(_, _, _, _)
TileRows(h, e, t, gy) ==
    IF h.err \/ ~(gy < t.gridH) THEN h
    ELSE TileRows(TileRow(h, e, t, 0, gy), e, t, gy + 1)

drawTiles(h, t) ==
    IF IsUndefined(t) THEN Throw(h)
    ELSE IF ~Has(h.atlases, t.atlasId) \/ ~h.atlases[t.atlasId].ready THEN h
    ELSE LET e == h.atlases[t.atlasId]
             h1 == [DrawSetup(h) EXCEPT !.gl.u_tint = <<QInt(1), QInt(1), QInt(1), QInt(1)>>]
         IN  TileRows(h1, e, t, 0)

----------------------------------------------------------------------------
(* public API: exec *)

\* ExecOne with a final else that rejects the record
ExecOne_rejectUnknown(h, c) ==
    IF c.tag = "begin-frame" THEN cmd_begin_frame(h, c.arg)
    ELSE IF c.tag = "end-frame" THEN h
    ELSE IF c.tag = "set-blend" THEN cmd_set_blend(h, c.arg)
    ELSE IF c.tag = "set-camera" THEN cmd_set_camera(h, c.arg)
    ELSE IF c.tag = "create-atlas" THEN cmd_create_atlas(h, c.arg)
    ELSE IF c.tag = "upload-atlas-chunk" THEN cmd_upload_atlas_chunk(h, c.arg)
    ELSE IF c.tag = "finalize-atlas" THEN cmd_finalize_atlas(h, c.arg)
    ELSE IF c.tag = "draw-sprite" THEN drawSprite(h, c.arg)
    ELSE IF c.tag = "draw-tiles" THEN drawTiles(h, c.arg)
    ELSE Throw(h)

\* one iteration of the loop of exec: the if / else-if chain on the tag the
\* record carries; a record with none of the nine tags falls through
ExecOne(h, c) ==
    IF c.tag = "begin-frame" THEN cmd_begin_frame(h, c.arg)
    ELSE IF c.tag = "end-frame" THEN h
    ELSE IF c.tag = "set-blend" THEN cmd_set_blend(h, c.arg)
    ELSE IF c.tag = "set-camera" THEN cmd_set_camera(h, c.arg)
    ELSE IF c.tag = "create-atlas" THEN cmd_create_atlas(h, c.arg)
    ELSE IF c.tag = "upload-atlas-chunk" THEN cmd_upload_atlas_chunk(h, c.arg)
    ELSE IF c.tag = "finalize-atlas" THEN cmd_finalize_atlas(h, c.arg)
    ELSE IF c.tag = "draw-sprite" THEN drawSprite(h, c.arg)
    ELSE IF c.tag = "draw-tiles" THEN drawTiles(h, c.arg)
    ELSE h

\* the closure variables as one host state, before exec runs
Host ==
    [ atlases |-> atlases, nextTex |-> nextTex, camWasm |-> camWasm,
      physW |-> physW, physH |-> physH, logicalW |-> logicalW, logicalH |-> logicalH,
      gl |-> gl, out |-> <<>>, err |-> FALSE, n |-> 0 ]

\* the lifecycle of the spec's per-atlas state machine, advanced by the
\* command the loop dispatches: "none" (never created), "created" (not
\* finalized since its most recent create-atlas), "finalized"
LifeAfter(life, c) ==
    IF c.tag = "create-atlas" /\ ~IsUndefined(c.arg)
    THEN [life EXCEPT ![c.arg.id] = "created"]
    ELSE IF c.tag = "finalize-atlas" /\ ~IsUndefined(c.arg) /\ life[c.arg.id] # "none"
    THEN [life EXCEPT ![c.arg.id] = "finalized"]
    ELSE life

\* for (const c of commands) from the i-th command on: a handler that throws
\* ends the loop, and the call, at once; n counts the completed iterations
RECURSIVE ExecLoop(_, _, _)
ExecLoop(h, cmds, i) ==
    IF h.err \/ i > Len(cmds) THEN h
    ELSE LET h1 == ExecOne(h, cmds[i])
         IN  ExecLoop(IF h1.err THEN h1 ELSE [h1 EXCEPT !.n = i], cmds, i + 1)

\* the lifecycle after the first n commands of the list
RECURSIVE LifeRun(_, _, _)
LifeRun(life, cmds, n) ==
    IF n = 0 THEN life
    ELSE LifeAfter(LifeRun(life, cmds, n - 1), cmds[n])

\* exec(commands), from the call to its return or throw: JavaScript runs the
\* call to completion before any other host operation
exec(cmds) ==
    \E h \in {ExecLoop(Host, cmds, 1)} :
        /\ atlases' = h.atlases
        /\ nextTex' = h.nextTex
        /\ camWasm' = h.camWasm
        /\ gl' = h.gl
        /\ log' = h.out
        /\ done' = h.n
        /\ status' = IF h.err THEN "thrown" ELSE "returned"
        /\ lastLife' = LifeRun(lastLife, cmds, h.n)
        /\ UNCHANGED <<physW, physH, logicalW, logicalH, canvas>>

----------------------------------------------------------------------------
(* public API: resizeToDisplaySize, setLogicalSize *)

\* Math.round of a finite rational: floor(q + 1/2)
Round(q) == (2 * q[1] + q[2]) \div (2 * q[2])

\* w|0 of a rational: truncation toward zero; NaN and Infinity give 0
ToInt32(q) == IF q[2] = 0 THEN 0 ELSE Sign(q[1]) * (Abs(q[1]) \div q[2])

\* DPR(): Math.max(1, Math.round(window.devicePixelRatio || 1))
DPR(dpr) == Max(1, Round(IF dpr[1] = 0 THEN QInt(1) ELSE dpr))

\* what resizeToDisplaySize leaves in canvas, physW, physH and the viewport,
\* for the client rectangle r and the window's devicePixelRatio: nothing is
\* written unless the canvas's backing size differs from the size computed
Resized(r, dpr) ==
    LET w == Max(1, Round(QMul(r[1], QInt(DPR(dpr)))))
        hh == Max(1, Round(QMul(r[2], QInt(DPR(dpr)))))
    IN  IF canvas.width # w \/ canvas.height # hh
        THEN [canvas |-> [width |-> w, height |-> hh], physW |-> w, physH |-> hh,
              viewport |-> <<0, 0, w, hh>>]
        ELSE [canvas |-> canvas, physW |-> physW, physH |-> physH,
              viewport |-> gl.viewport]

\* resizeToDisplaySize with the canvas's client rectangle r and the window's
\* devicePixelRatio
resizeToDisplaySize(r, dpr) ==
    /\ \E z \in {Resized(r, dpr)} :
        /\ canvas' = z.canvas
        /\ physW' = z.physW
        /\ physH' = z.physH
        /\ gl' = [gl EXCEPT !.viewport = z.viewport]
    /\ UNCHANGED <<atlases, nextTex, camWasm, logicalW, logicalH,
                   commands, status, done, log, lastLife>>

setLogicalSize(w, hh) ==
    /\ logicalW' = Max(1, ToInt32(w))
    /\ logicalH' = Max(1, ToInt32(hh))
    /\ UNCHANGED <<atlases, nextTex, camWasm, physW, physH, canvas, gl,
                   commands, status, done, log, lastLife>>

----------------------------------------------------------------------------
(* The inputs the model draws from *)

Cmd(tag, arg) == [tag |-> tag, arg |-> arg]

\* the atlas of the spec's UV example, and a small one whose sizes are not
\* powers of two
MetaA == [width |-> 256, height |-> 256, cols |-> 4, rows |-> 4,
          tileW |-> 64, tileH |-> 64, filter |-> "nearest", wrap |-> "clamp"]
MetaB == [width |-> 6, height |-> 3, cols |-> 3, rows |-> 1,
          tileW |-> 2, tileH |-> 3, filter |-> "linear", wrap |-> "repeat"]
Metas == {MetaA, MetaB}

CreateArg(id, m) ==
    [k |-> "obj", id |-> id, width |-> m.width, height |-> m.height,
     cols |-> m.cols, rows |-> m.rows, tileW |-> m.tileW, tileH |-> m.tileH,
     filter |-> m.filter, wrap |-> m.wrap]

IdArg(id) == [k |-> "id", id |-> id]
NumArg(n) == [k |-> "num", n |-> n]
StrArg(str) == [k |-> "str", s |-> str]

\* packed RGBA8 values: 0xFFFFFFFF and 0x80FF4020
White == <<65535, 65535>>
Tint2 == <<33023, 16416>>

CamIdentity == [k |-> "obj", originX |-> 0, originY |-> 0, scale |-> 1, rotation |-> 0]
CamMoved == [k |-> "obj", originX |-> 3, originY |-> -5, scale |-> 2, rotation |-> 0]

SpriteArg(id, x, y, i, f, tint) ==
    [k |-> "obj", atlasId |-> id, x |-> x, y |-> y, tileIndex |-> i,
     flip |-> f, tint |-> tint]

\* the tiles array of a gw x gh grid: cell k (0-based) holds (2k+1) mod (MaxTile+1)
TilesOf(gw, gh) == [k \in 1..(gw * gh) |-> (2 * (k - 1) + 1) % (MaxTile + 1)]

TilesArg(id, x, y, gw, gh, hasTiles) ==
    [k |-> "obj", atlasId |-> id, x |-> x, y |-> y, cellW |-> 16, cellH |-> 8,
     gridW |-> gw, gridH |-> gh, hasTiles |-> hasTiles,
     tiles |-> IF hasTiles THEN TilesOf(gw, gh) ELSE <<>>]

ChunkArg(id) == [k |-> "obj", id |-> id, x |-> 0, y |-> 0, w |-> 2, h |-> 1, data |-> 1]

BeginFrameCmds == {Cmd("begin-frame", Undefined)}
EndFrameCmds == {Cmd("end-frame", Undefined)}
BlendModes == {"none", "alpha", "additive", "multiply"}
SetBlendCmds == {Cmd("set-blend", StrArg("alpha"))}
SetCameraCmds == {Cmd("set-camera", a) : a \in {Undefined, CamMoved}}
CreateCmds == {Cmd("create-atlas", Undefined)}
              \cup {Cmd("create-atlas", CreateArg(id, m)) : id \in Ids, m \in Metas}
UploadCmds == {Cmd("upload-atlas-chunk", Undefined)}
              \cup {Cmd("upload-atlas-chunk", ChunkArg(id)) : id \in Ids}
FinalizeCmds == {Cmd("finalize-atlas", Undefined)}
                \cup {Cmd("finalize-atlas", IdArg(id)) : id \in Ids}
SpriteCmds == {Cmd("draw-sprite", Undefined)}
              \cup {Cmd("draw-sprite", SpriteArg(id, 10, 20, MaxTile, 1, White)) : id \in Ids}
TilesCmds == {Cmd("draw-tiles", Undefined)}
             \cup {Cmd("draw-tiles", TilesArg(id, 5, 9, gw, gh, TRUE)) :
                     id \in Ids, gw \in {0, MaxGrid}, gh \in {1, 2}}
             \cup {Cmd("draw-tiles", TilesArg(id, 5, 9, gw, 1, FALSE)) :
                     id \in Ids, gw \in {1}}
\* a record carrying none of the nine tags
UnknownCmds == {Cmd("present", Undefined)}

Cmds == BeginFrameCmds \cup EndFrameCmds \cup SetBlendCmds \cup SetCameraCmds
        \cup CreateCmds \cup UploadCmds \cup FinalizeCmds \cup SpriteCmds
        \cup TilesCmds \cup UnknownCmds

\* the client rectangles and device pixel ratios resizeToDisplaySize reads
DisplayRects == {<<QInt(4), QInt(2)>>, <<Q(3, 2), QInt(0)>>}
PixelRatios == {QInt(1), Q(3, 2), QInt(0)}
\* the arguments setLogicalSize is called with
LogicalArgs == {QInt(0), Q(-7, 2), Q(5, 2), QInt(8)}
\* the logicalWidth / logicalHeight options of createRendererHost
LogicalOpts == {<<800, 450>>}
\* the canvas's backing size when the host is created
CanvasOpts == {<<300, 150>>}

----------------------------------------------------------------------------
(* The state after createRendererHost *)

Q0 == QInt(0)
Q1 == QInt(1)
Identity3 == <<Q1, Q0, Q0,  Q0, Q1, Q0,  Q0, Q0, Q1>>

GlInit(w, hh) ==
    [ blend |-> FALSE, blendFunc |-> <<"ONE", "ZERO", "ONE", "ZERO">>,
      clearColor |-> <<Q0, Q0, Q0, Q0>>,
      texture2D |-> 0, unpackAlignment |-> 4, activeTexture |-> 0,
      uvData |-> QuadUV(<<Q0, Q0, Q1, Q1>>),
      program |-> "none", vao |-> "none",
      u_screen |-> <<0, 0>>, u_rect |-> <<0, 0, 0, 0>>,
      u_cam |-> <<Q0, Q0, Q0,  Q0, Q0, Q0,  Q0, Q0, Q0>>,
      u_tint |-> <<Q0, Q0, Q0, Q0>>, u_tex |-> 0,
      viewport |-> <<0, 0, w, hh>> ]

\* createRendererHost(canvas, { logicalWidth, logicalHeight }) on a canvas of
\* backing size cv: the options are stored as they are given
Created(cv, lo) ==
    /\ atlases = <<>>
    /\ nextTex = 1
    /\ camWasm = Identity3
    /\ canvas = [width |-> cv[1], height |-> cv[2]]
    /\ physW = cv[1]
    /\ physH = cv[2]
    /\ logicalW = lo[1]
    /\ logicalH = lo[2]
    /\ gl = GlInit(cv[1], cv[2])
    /\ commands = <<>>
    /\ status = "idle"
    /\ done = 0
    /\ log = <<>>
    /\ lastLife = [id \in Ids |-> "none"]

Init == \E cv \in CanvasOpts, lo \in LogicalOpts : Created(cv, lo)

\* the host state createRendererHost leaves for the canvas and logical size
\* of the current state
InitHost ==
    [ atlases |-> <<>>, nextTex |-> 1, camWasm |-> Identity3,
      physW |-> physW, physH |-> physH, logicalW |-> logicalW, logicalH |-> logicalH,
      gl |-> GlInit(physW, physH), out |-> <<>>, err |-> FALSE, n |-> 0 ]

\* exec is called with a list of one command
ExecOneCmd == \E c \in Cmds : exec(<<c>>) /\ commands' = <<>>

Resize == \E r \in DisplayRects, dpr \in PixelRatios : resizeToDisplaySize(r, dpr)

SetLogical == \E w \in LogicalArgs, hh \in LogicalArgs : setLogicalSize(w, hh)

Next == ExecOneCmd

\* The command interpreter: any number of exec calls, one command each
Spec == Init /\ [][Next]_vars

----------------------------------------------------------------------------
(* SpecHost: the host-facing operations between exec calls that set the    *)
(* camera and draw from one atlas                                          *)

HostCmds ==
    { Cmd("set-camera", CamIdentity), Cmd("set-camera", CamMoved),
      Cmd("create-atlas", CreateArg(1, MetaB)),
      Cmd("finalize-atlas", IdArg(1)),
      Cmd("draw-sprite", SpriteArg(1, 10, 20, 1, 0, White)) }

\* the logicalWidth / logicalHeight options the hosts of SpecHost are
\* created with: the defaults, and a zero and a negative size
HostLogicalOpts == LogicalOpts \cup {<<0, -5>>}

\* the backing sizes the page gives the canvas
PageCanvasSizes == {<<4, 2>>}

InitWide == \E cv \in CanvasOpts, lo \in HostLogicalOpts : Created(cv, lo)

ExecHostCmd == \E c \in HostCmds : exec(<<c>>) /\ commands' = <<>>

\* the page that owns the canvas assigns canvas.width and canvas.height
\* itself; the host reads them again in resizeToDisplaySize only
CanvasSetByPage ==
    /\ \E cv \in PageCanvasSizes : canvas' = [width |-> cv[1], height |-> cv[2]]
    /\ UNCHANGED <<atlases, nextTex, camWasm, physW, physH, logicalW, logicalH, gl,
                   commands, status, done, log, lastLife>>

NextHost == ExecHostCmd \/ Resize \/ SetLogical \/ CanvasSetByPage

SpecHost == InitWide /\ [][NextHost]_vars

----------------------------------------------------------------------------
(* SpecDraw: the draw handlers and the tile-UV calculator on one finalized *)
(* atlas, over wide ranges of metadata, tile indices, flips and grids      *)

\* columns of the atlases of SpecDraw are 1..MaxCols
MaxCols == 3

DrawMetas ==
    {MetaA, MetaB}
    \cup {[width |-> w, height |-> 2, cols |-> c, rows |-> 1, tileW |-> tw, tileH |-> 1,
           filter |-> "nearest", wrap |-> "clamp"] :
            w \in 1..3, c \in 1..MaxCols, tw \in 1..2}

WideSprites ==
    {Cmd("draw-sprite", SpriteArg(1, x, 20, i, f, IF f = 0 THEN White ELSE Tint2)) :
        x \in {-4}, i \in 0..MaxTile, f \in 0..3}

WideTiles ==
    {Cmd("draw-tiles", TilesArg(1, 5, 9, gw, gh, TRUE)) :
        gw \in 0..MaxGrid, gh \in 0..MaxGrid}

\* a host on which exec([create-atlas 1 with m, finalize-atlas 1]) has run
InitDraw ==
    \E cv \in CanvasOpts, lo \in LogicalOpts, m \in DrawMetas :
        /\ canvas = [width |-> cv[1], height |-> cv[2]]
        /\ physW = cv[1]
        /\ physH = cv[2]
        /\ logicalW = lo[1]
        /\ logicalH = lo[2]
        /\ commands = <<Cmd("create-atlas", CreateArg(1, m)), Cmd("finalize-atlas", IdArg(1))>>
        /\ \E h \in {ExecLoop(InitHost, commands, 1)} :
            /\ atlases = h.atlases
            /\ nextTex = h.nextTex
            /\ camWasm = h.camWasm
            /\ gl = h.gl
            /\ log = h.out
            /\ done = h.n
            /\ status = "returned"
        /\ lastLife = LifeRun([id \in Ids |-> "none"], commands, 2)

ExecSprite == \E c \in WideSprites : exec(<<c>>) /\ commands' = <<c>>

ExecGrid == \E c \in WideTiles : exec(<<c>>) /\ commands' = <<c>>

NextDraw == ExecSprite \/ ExecGrid

SpecDraw == InitDraw /\ [][NextDraw]_vars

----------------------------------------------------------------------------
(* SpecList: one exec call on a fresh host, with every list of at most     *)
(* MaxCmds commands                                                        *)

ListCmds ==
    { Cmd("begin-frame", NumArg(Tint2)),
      Cmd("set-blend", StrArg("alpha")),
      Cmd("set-camera", Undefined),
      Cmd("set-camera", CamMoved),
      Cmd("create-atlas", CreateArg(1, MetaB)),
      Cmd("upload-atlas-chunk", ChunkArg(1)),
      Cmd("finalize-atlas", IdArg(1)),
      Cmd("draw-sprite", Undefined),
      Cmd("draw-sprite", SpriteArg(1, 10, 20, 1, 1, Tint2)),
      Cmd("draw-tiles", TilesArg(1, 5, 9, 2, 1, TRUE)),
      Cmd("draw-tiles", TilesArg(1, 5, 9, 2, 1, FALSE)),
      Cmd("upload-atlas-chunk", ChunkArg(2)),
      Cmd("finalize-atlas", IdArg(2)) }
    \cup UnknownCmds

Lists == UNION {[1..n -> ListCmds] : n \in 0..MaxCmds}

ExecList == status = "idle" /\ \E cmds \in Lists : exec(cmds) /\ commands' = cmds

NextList == ExecList

SpecList == Init /\ [][NextList]_vars

----------------------------------------------------------------------------
(* SpecBlend: exec calls of one command each, with every set-blend mode,   *)
(* a mode the host does not know, a set-blend without a mode, and one      *)
(* command of every other kind                                             *)

\* set-blend with a mode outside none, alpha, additive, multiply
InvalidBlendCmds == {Cmd("set-blend", StrArg("screen")), Cmd("set-blend", Undefined)}

ValidBlendCmds == {Cmd("set-blend", StrArg(m)) : m \in BlendModes}

OtherBlendCmds ==
    { Cmd("begin-frame", NumArg(Tint2)),
      Cmd("end-frame", Undefined),
      Cmd("set-camera", CamMoved),
      Cmd("create-atlas", CreateArg(1, MetaB)),
      Cmd("upload-atlas-chunk", ChunkArg(1)),
      Cmd("finalize-atlas", IdArg(1)),
      Cmd("draw-sprite", SpriteArg(1, 10, 20, 1, 1, Tint2)),
      Cmd("draw-tiles", TilesArg(1, 5, 9, 2, 1, TRUE)) }

BlendCmds == ValidBlendCmds \cup InvalidBlendCmds \cup OtherBlendCmds

ExecBlendCmd == \E c \in BlendCmds : exec(<<c>>) /\ commands' = <<>>

NextBlend == ExecBlendCmd

SpecBlend == Init /\ [][NextBlend]_vars

----------------------------------------------------------------------------
(* What the claims speak of *)

\* the host state exec(cmds) would leave, called in the current state
Run(cmds) == ExecLoop(Host, cmds, 1)

IsDraw(o) == o.op = "drawArrays"
DrawOps(ops) == SelectSeq(ops, IsDraw)
NDraws(ops) == Len(DrawOps(ops))

\* the draw commands that carry every field of the protocol
WellFormedSprites == {c \in SpriteCmds : ~IsUndefined(c.arg)}
WellFormedTiles == {c \in TilesCmds : ~IsUndefined(c.arg) /\ c.arg.hasTiles}

\* the draw calls a draw command must issue on a finalized atlas
DrawsOf(c) == IF c.tag = "draw-sprite" THEN 1 ELSE c.arg.gridW * c.arg.gridH

----------------------------------------------------------------------------
(* C1: atlas readiness *)

\* C1: in every reachable state, a draw-sprite or draw-tiles command naming
\* an atlas that was never created, or not finalized since its most recent
\* create-atlas, issues zero draw calls; naming a finalized atlas it issues
\* exactly one draw call (sprite) or grid-w * grid-h draw calls (tiles).
C1_AtlasReadiness ==
    \A c \in WellFormedSprites \cup WellFormedTiles : \A h \in {Run(<<c>>)} :
        /\ ~h.err
        /\ NDraws(h.out) = IF lastLife[c.arg.atlasId] = "finalized"
                           THEN DrawsOf(c) ELSE 0

\* a draw-tiles on a finalized atlas has issued its MaxGrid * 2 draw calls
\* while another atlas is created and not finalized
C1_Witness ==
    /\ status = "returned"
    /\ NDraws(log) = MaxGrid * 2
    /\ \E a, b \in Ids : /\ lastLife[a] = "finalized"
                         /\ lastLife[b] = "created"
                         /\ log[1].tex = atlases[a].tex

----------------------------------------------------------------------------
(* C2: ready is true exactly after a finalize since the last create *)

\* C2: in every reachable state the registry holds exactly the ids that were
\* created, and an atlas is ready if and only if a finalize-atlas for its id
\* was executed after the most recent create-atlas for it: a create-atlas
\* (first or repeated) leaves ready false and no other command sets it.
C2_ReadyIffFinalized ==
    /\ DOMAIN atlases = {id \in Ids : lastLife[id] # "none"}
    /\ \A id \in DOMAIN atlases : atlases[id].ready <=> (lastLife[id] = "finalized")

\* one atlas is finalized and ready, another created and not ready, after
\* a draw that used the ready one
C2_Witness ==
    \E a, b \in DOMAIN atlases :
        /\ atlases[a].ready /\ lastLife[a] = "finalized"
        /\ ~atlases[b].ready /\ lastLife[b] = "created"
        /\ gl.program = "prog"

----------------------------------------------------------------------------
(* C10: re-creating an atlas *)

CreateRecords == {c \in CreateCmds : ~IsUndefined(c.arg)}

\* C10: in every reachable state the textures allocated so far are one per
\* id ever created, each id with its own handle; a create-atlas for an id
\* already in the registry allocates no texture and keeps the id's handle,
\* removes no id, stores the new command's metadata and leaves ready false,
\* and a draw naming that id then issues no draw call until a finalize-atlas
\* makes it ready again.
C10_Recreate ==
    /\ nextTex - 1 = Cardinality(DOMAIN atlases)
    /\ \A a, b \in DOMAIN atlases : atlases[a].tex = atlases[b].tex => a = b
    /\ \A c \in CreateRecords : \A h \in {Run(<<c>>)} :
        LET id == c.arg.id
            e == h.atlases[id]
        IN  /\ DOMAIN atlases \subseteq DOMAIN h.atlases
            /\ id \in DOMAIN h.atlases
            /\ ~e.ready
            /\ <<e.width, e.height, e.cols, e.rows, e.tileW, e.tileH>>
                 = <<c.arg.width, c.arg.height, c.arg.cols, c.arg.rows,
                     c.arg.tileW, c.arg.tileH>>
            /\ id \in DOMAIN atlases =>
                 /\ e.tex = atlases[id].tex
                 /\ h.nextTex = nextTex
                 /\ \A i \in 1..Len(h.out) : h.out[i].op # "createTexture"
            /\ \A d \in WellFormedSprites \cup {t \in WellFormedTiles : t.arg.gridW * t.arg.gridH > 2} :
                 d.arg.atlasId = id =>
                   /\ NDraws(ExecLoop(h, <<c, d>>, 2).out) = 0
                   /\ NDraws(ExecLoop(h, <<c, Cmd("finalize-atlas", IdArg(id)), d>>, 2).out)
                        = DrawsOf(d)

\* an atlas that was ready has been created again with other metadata: the
\* call allocated no texture, and the atlas is not ready
C10_Witness ==
    /\ status = "returned"
    /\ Len(log) = 2
    /\ log[1].op = "texParameters"
    /\ \E id \in DOMAIN atlases :
        /\ log[1].tex = atlases[id].tex
        /\ atlases[id].tex = 1
        /\ atlases[id].width = MetaB.width
        /\ ~atlases[id].ready
        /\ gl.u_rect[3] = MetaA.tileW
        /\ nextTex = 2

----------------------------------------------------------------------------
(* C6, C7: the draw calls of draw-tiles and draw-sprite *)

\* the last exec call was given the single command `commands[1]` with this
\* tag, and returned
Ran(tag) == status = "returned" /\ Len(commands) = 1 /\ commands[1].tag = tag

\* the rectangle <<u0, v0, u1, v1>> a uv buffer's six vertices span
RectOfQuad(uv) == <<uv[1], uv[2], uv[3], uv[6]>>

OpaqueWhite == <<Q1, Q1, Q1, Q1>>

\* C6: a draw-tiles command on a ready atlas issues exactly grid-w * grid-h
\* draw calls and nothing else; the k-th call (0-based) is for the cell
\* gx = k mod grid-w, gy = k div grid-w (row-major), with the destination
\* rectangle (x + gx*cell-w, y + gy*cell-h, cell-w, cell-h), the UV quad of
\* tile tiles[gy*grid-w + gx] unflipped, the atlas's texture and the tint
\* opaque white.
C6_TilesRowMajor ==
    Ran("draw-tiles") =>
        LET t == commands[1].arg
            e == atlases[t.atlasId]
        IN  /\ Len(log) = t.gridW * t.gridH
            /\ \A k \in 0..(Len(log) - 1) :
                LET gx == k % t.gridW
                    gy == k \div t.gridW
                    o == log[k + 1]
                IN  /\ o.op = "drawArrays"
                    /\ o.rect = <<t.x + gx * t.cellW, t.y + gy * t.cellH, t.cellW, t.cellH>>
                    /\ o.uvData = QuadUV(TileRect(e, t.tiles[gy * t.gridW + gx + 1], 0))
                    /\ o.tex = e.tex
                    /\ o.tint = OpaqueWhite

\* the spec's example: a 3 x 2 grid has issued 6 draw calls, the last one
\* for cell (gx = 2, gy = 1) at (x + 2*cell-w, y + 1*cell-h)
C6_Witness ==
    /\ Ran("draw-tiles")
    /\ commands[1].arg.gridW = 3 /\ commands[1].arg.gridH = 2
    /\ Len(log) = 6
    /\ log[6].rect = <<5 + 2 * 16, 9 + 1 * 8, 16, 8>>
    /\ atlases[1].ready

\* the byte (0..255) a tint component b/255 stands for, -1 if it is none
ByteOf(q) == IF q[2] # 0 /\ (q[1] * 255) % q[2] = 0 /\ (q[1] * 255) \div q[2] \in 0..255
             THEN (q[1] * 255) \div q[2] ELSE -1

\* C7: a draw-sprite command on a ready atlas issues exactly one draw call
\* and nothing else, with the destination rectangle (x, y, tileW, tileH) of
\* the atlas's stored tile size, the UV quad of the command's tile index and
\* flip, the atlas's texture handle, and the tint whose four components are
\* the bytes of the command's packed RGBA8 value (red highest) over 255.
C7_SpriteDrawCall ==
    Ran("draw-sprite") =>
        LET sp == commands[1].arg
            e == atlases[sp.atlasId]
        IN  /\ Len(log) = 1
            /\ log[1].op = "drawArrays"
            /\ log[1].rect = <<sp.x, sp.y, e.tileW, e.tileH>>
            /\ log[1].uvData = QuadUV(TileRect(e, sp.tileIndex, sp.flip))
            /\ log[1].tex = e.tex
            /\ \A i \in 1..4 : ByteOf(log[1].tint[i]) >= 0
            /\ ByteOf(log[1].tint[1]) * 256 + ByteOf(log[1].tint[2]) = sp.tint[1]
            /\ ByteOf(log[1].tint[3]) * 256 + ByteOf(log[1].tint[4]) = sp.tint[2]

\* a sprite with the tint 0x80FF4020 has been drawn with (128, 255, 64, 32)/255
C7_Witness ==
    /\ Ran("draw-sprite")
    /\ commands[1].arg.tint = Tint2
    /\ atlases[1].ready
    /\ Len(log) = 1
    /\ log[1].tint = <<Q(128, 255), Q1, Q(64, 255), Q(32, 255)>>
    /\ log[1].rect[3] = atlases[1].tileW

----------------------------------------------------------------------------
(* C8, C9: the tile-UV calculator *)

\* C8: for a sprite drawn unflipped from tile i of an atlas with positive
\* metadata, the UV rectangle is that of column i mod cols and row
\* floor(i / cols), also for i beyond cols*rows: u0*width = col*tileW,
\* u1*width = (col+1)*tileW, u1 = u0 + tileW/width, and likewise for v with
\* row, tileH and height; on the 256 x 256 atlas of 64-pixel tiles in 4
\* columns, tile 5 gives (1/4, 1/4)-(1/2, 1/2).
C8_UVRect ==
    (Ran("draw-sprite") /\ commands[1].arg.flip = 0) =>
        LET i == commands[1].arg.tileIndex
            e == atlases[commands[1].arg.atlasId]
            r == RectOfQuad(log[1].uvData)
        IN  /\ \E col \in 0..(e.cols - 1), row \in 0..i :
                /\ i = row * e.cols + col
                /\ QMul(r[1], QInt(e.width)) = QInt(col * e.tileW)
                /\ QMul(r[3], QInt(e.width)) = QInt((col + 1) * e.tileW)
                /\ r[3] = QAdd(r[1], QDiv(e.tileW, e.width))
                /\ QMul(r[2], QInt(e.height)) = QInt(row * e.tileH)
                /\ QMul(r[4], QInt(e.height)) = QInt((row + 1) * e.tileH)
                /\ r[4] = QAdd(r[2], QDiv(e.tileH, e.height))
            /\ (e.width = 256 /\ e.height = 256 /\ e.cols = 4 /\ e.tileW = 64
                  /\ e.tileH = 64 /\ i = 5)
                 => r = <<Q(1, 4), Q(1, 4), Q(1, 2), Q(1, 2)>>

\* the spec's example has been drawn: tile 5 of the 256 x 256 atlas
C8_Witness ==
    /\ Ran("draw-sprite")
    /\ commands[1].arg.flip = 0 /\ commands[1].arg.tileIndex = 5
    /\ atlases[1].width = 256 /\ atlases[1].cols = 4
    /\ RectOfQuad(log[1].uvData) = <<Q(1, 4), Q(1, 4), Q(1, 2), Q(1, 2)>>

\* a flip mask applied to a rectangle: bit 0 swaps u0/u1, bit 1 swaps v0/v1
ApplyFlip(r, f) ==
    << IF f \in {1, 3} THEN r[3] ELSE r[1], IF f \in {2, 3} THEN r[4] ELSE r[2],
       IF f \in {1, 3} THEN r[1] ELSE r[3], IF f \in {2, 3} THEN r[2] ELSE r[4] >>

\* C9: the rectangle of a sprite drawn from tile i with flip mask f is the
\* rectangle of (i, 0) with u0/u1 swapped exactly when bit 0 of f is set and
\* v0/v1 swapped exactly when bit 1 is set; applying f to it again gives the
\* rectangle of (i, 0).
C9_FlipInvolution ==
    Ran("draw-sprite") =>
        LET sp == commands[1].arg
            e == atlases[sp.atlasId]
            r == RectOfQuad(log[1].uvData)
            r0 == TileRect(e, sp.tileIndex, 0)
        IN  /\ r = ApplyFlip(r0, sp.flip)
            /\ ApplyFlip(r, sp.flip) = r0

\* a sprite has been drawn flipped both ways: u and v are both swapped
C9_Witness ==
    /\ Ran("draw-sprite")
    /\ commands[1].arg.flip = 3
    /\ RectOfQuad(log[1].uvData)[1] = TileRect(atlases[1], commands[1].arg.tileIndex, 0)[3]
    /\ RectOfQuad(log[1].uvData)[2] = TileRect(atlases[1], commands[1].arg.tileIndex, 0)[4]

----------------------------------------------------------------------------
(* C3, C4, C5: the loop of exec *)

\* a recognized tag whose payload, or whose tiles array, is missing
Malformed(c) ==
    \/ c.tag \in {"set-camera", "create-atlas", "upload-atlas-chunk", "draw-sprite",
                  "draw-tiles"} /\ IsUndefined(c.arg)
    \/ c.tag = "draw-tiles" /\ ~IsUndefined(c.arg) /\ ~c.arg.hasTiles
WellFormed(c) == ~Malformed(c)

Recognized(c) == c \notin UnknownCmds

\* what the exec call has left: the host state, the operations, how it ended
Outcome == <<atlases, nextTex, camWasm, gl, log, status>>
OutcomeOf(h) == <<h.atlases, h.nextTex, h.camWasm, h.gl, h.out,
                  IF h.err THEN "thrown" ELSE "returned">>

\* C3: a malformed command with a recognized tag is silently skipped: the
\* exec call raises no error, runs every command of its list, and leaves what
\* the list without its malformed commands leaves.
C3_MalformedSkipped ==
    status # "idle" =>
        /\ status = "returned"
        /\ done = Len(commands)
        /\ Outcome = OutcomeOf(ExecLoop(InitHost, SelectSeq(commands, WellFormed), 1))

\* C4: a record carrying none of the nine tags raises no error, issues no
\* backend call and changes no state, and the commands after it do what they
\* would do without it: the exec call leaves exactly what the list without
\* its unknown records leaves, and a list of unknown records alone leaves a
\* fresh host with nothing emitted.
C4_UnknownTagIgnored ==
    status # "idle" =>
        /\ Outcome = OutcomeOf(ExecLoop(InitHost, SelectSeq(commands, Recognized), 1))
        /\ (\A i \in 1..Len(commands) : commands[i] \in UnknownCmds) =>
             Outcome = OutcomeOf(InitHost) /\ done = Len(commands)

\* an unknown record came first and the two commands after it were executed:
\* the atlas they created and finalized is ready
C4_Witness ==
    /\ status = "returned"
    /\ Len(commands) = 3
    /\ commands[1] \in UnknownCmds
    /\ done = 3
    /\ 1 \in DOMAIN atlases
    /\ atlases[1].ready
    /\ Len(log) = 3

\* the operations a list emits when every command of it is executed, each in
\* the state its predecessors left
RECURSIVE Emissions(_, _, _)
Emissions(h, cmds, i) ==
    IF i > Len(cmds) THEN <<>>
    ELSE LET h1 == ExecOne([h EXCEPT !.out = <<>>, !.err = FALSE], cmds[i])
         IN  h1.out \o Emissions(h1, cmds, i + 1)

\* C5: exec processes its list in order and to the end: when the call is
\* over every command of the list has been processed, and the operations
\* emitted are the concatenation, in list order, of each command's emissions
\* in the state the commands before it left.
C5_InOrderToTheEnd ==
    status # "idle" =>
        /\ done = Len(commands)
        /\ log = Emissions(InitHost, commands, 1)

----------------------------------------------------------------------------
(* C12, C13, C14, C18: the transform and the viewport, under SpecHost *)

\* the draw commands and camera commands whose effect is examined in every
\* state of SpecHost
HostDraws ==
    { Cmd("draw-sprite", SpriteArg(1, 10, 20, 1, 0, White)),
      Cmd("draw-tiles", TilesArg(1, 5, 9, 2, 1, TRUE)) }
HostCams == { Cmd("set-camera", CamIdentity), Cmd("set-camera", CamMoved) }

\* diag(physW/logicalW, physH/logicalH, 1) of the current state
HostScaleNow ==
    << Q(physW, logicalW), Q0, Q0,   Q0, Q(physH, logicalH), Q0,   Q0, Q0, Q1 >>

AtlasReady(id) == id \in DOMAIN atlases /\ atlases[id].ready

\* C12: every draw call carries hostScale x cameraMatrix of the values
\* current when its command executes. In every state, whatever resizes,
\* setLogicalSize calls and set-camera commands led to it, the list
\* [draw, set-camera, draw] submits the draws of its first command with the
\* current camera and the draws of its last command with the camera just
\* set, all with the current host scale and physical size; and a step that
\* changes the physical or logical size leaves the draw calls already
\* submitted as they were.
C12_TransformAtDraw ==
    /\ [](\A d \in HostDraws, sc \in HostCams :
            LET ops == DrawOps(Run(<<d, sc, d>>).out)
                k == IF AtlasReady(d.arg.atlasId) THEN DrawsOf(d) ELSE 0
            IN  /\ Len(ops) = 2 * k
                /\ \A i \in 1..Len(ops) :
                     /\ ops[i].screen = <<physW, physH>>
                     /\ ops[i].cam = IF i <= k
                                     THEN mul3x3(HostScaleNow, camWasm)
                                     ELSE mul3x3(HostScaleNow, buildCamFromParams(sc.arg)))
    /\ [][(<<physW, physH, logicalW, logicalH>>' # <<physW, physH, logicalW, logicalH>>)
             => log' = log]_vars

\* a sprite was drawn after a set-camera, a resize and a setLogicalSize, and
\* carries the transform of the three
C12_Witness ==
    /\ status = "returned"
    /\ Len(log) = 1
    /\ log[1].op = "drawArrays"
    /\ camWasm = buildCamFromParams(CamMoved)
    /\ <<physW, physH>> = <<8, 4>>
    /\ <<logicalW, logicalH>> = <<2, 8>>
    /\ log[1].cam = mul3x3(HostScaleNow, camWasm)
    /\ log[1].cam[1] = QInt(8)
    /\ log[1].cam[3] = QInt(12)

\* C13: in every reachable state both logical dimensions are >= 1.
C13_LogicalAtLeastOne == logicalW >= 1 /\ logicalH >= 1

\* C14: with the identity camera, set by set-camera { scale 1, rotation 0,
\* origin (0,0) } or left from construction, the transform a draw submits is
\* the host-scale matrix alone.
C14_IdentityCamera ==
    \A d \in HostDraws :
        /\ \A i \in DOMAIN DrawOps(Run(<<Cmd("set-camera", CamIdentity), d>>).out) :
             DrawOps(Run(<<Cmd("set-camera", CamIdentity), d>>).out)[i].cam = HostScaleNow
        /\ camWasm = Identity3 =>
             \A i \in DOMAIN DrawOps(Run(<<d>>).out) :
                 DrawOps(Run(<<d>>).out)[i].cam = HostScaleNow

\* C18: after resizeToDisplaySize, whatever the canvas's backing size was,
\* physW and physH are max(1, round(displayWidth * DPR)) and
\* max(1, round(displayHeight * DPR)), equal the canvas's backing size, and
\* are >= 1.
C18_PhysAfterResize ==
    \A r \in DisplayRects, dpr \in PixelRatios :
        LET z == Resized(r, dpr)
            w == Max(1, Round(QMul(r[1], QInt(DPR(dpr)))))
            hh == Max(1, Round(QMul(r[2], QInt(DPR(dpr)))))
        IN  /\ z.physW = w /\ z.physH = hh
            /\ z.canvas = [width |-> w, height |-> hh]
            /\ z.physW >= 1 /\ z.physH >= 1

----------------------------------------------------------------------------
(* C15, C17: the blend state, under SpecBlend *)

\* the blend factors (source RGB, destination RGB, source alpha, destination
\* alpha) of the three blending modes
FactorsOf(m) ==
    CASE m = "alpha"    -> <<"SRC_ALPHA", "ONE_MINUS_SRC_ALPHA", "ONE", "ONE_MINUS_SRC_ALPHA">>
      [] m = "additive" -> <<"SRC_ALPHA", "ONE", "SRC_ALPHA", "ONE">>
      [] m = "multiply" -> <<"DST_COLOR", "ONE_MINUS_SRC_ALPHA", "DST_COLOR", "ONE_MINUS_SRC_ALPHA">>

\* the mode of the last set-blend of the list with one of the four modes,
\* "keep" if the list has none
RECURSIVE LastMode(_, _)
LastMode(cmds, i) ==
    IF i = 0 THEN "keep"
    ELSE IF cmds[i] \in ValidBlendCmds THEN cmds[i].arg.s
    ELSE LastMode(cmds, i - 1)

BlendLists == UNION {[1..n -> BlendCmds] : n \in 1..2}

\* C15: the blend state is that of the most recent set-blend with one of
\* the four modes and persists until the next one: in every state, an exec
\* call with any list of commands leaves blending disabled if the last such
\* set-blend of the list is none, enabled with the mode's factors if it is
\* alpha, additive or multiply, and leaves the blend state as it was if the
\* list has no such set-blend.
C15_BlendPersists ==
    \A cmds \in BlendLists :
        LET g == Run(cmds).gl
            m == LastMode(cmds, Len(cmds))
        IN  IF m = "keep" THEN g.blend = gl.blend /\ g.blendFunc = gl.blendFunc
            ELSE IF m = "none" THEN ~g.blend
            ELSE g.blend /\ g.blendFunc = FactorsOf(m)

\* C17: a set-blend whose mode is not one of the four leaves blending
\* enabled or disabled as it was, and the blend factors as they were.
C17_InvalidBlendSkipped ==
    \A c \in InvalidBlendCmds :
        /\ Run(<<c>>).gl.blend = gl.blend
        /\ Run(<<c>>).gl.blendFunc = gl.blendFunc

----------------------------------------------------------------------------
(* C11, C16: commands on unknown and on ready atlases, under SpecList *)

IsLifecycleOnId(c) ==
    c.tag \in {"upload-atlas-chunk", "finalize-atlas"} /\ ~IsUndefined(c.arg)

\* the i-th command is an upload-atlas-chunk or finalize-atlas naming an id
\* that no create-atlas before it in the list has put into the registry
UnknownIdAt(cmds, i) ==
    /\ IsLifecycleOnId(cmds[i])
    /\ \A j \in 1..(i - 1) :
         ~(cmds[j].tag = "create-atlas" /\ ~IsUndefined(cmds[j].arg)
           /\ cmds[j].arg.id = cmds[i].arg.id)

\* the list without the commands at the positions Drop(cmds, i) holds of
RECURSIVE Without(_, _, _)
Without(Drop(_, _), cmds, i) ==
    IF i > Len(cmds) THEN <<>>
    ELSE (IF Drop(cmds, i) THEN <<>> ELSE <<cmds[i]>>) \o Without(Drop, cmds, i + 1)

\* C11: an upload-atlas-chunk or finalize-atlas naming an id that is not in
\* the registry is a no-op: the exec call leaves exactly what the list
\* without these commands leaves (no backend call, no registry entry, the
\* existing atlases as they are, and a later create-atlas of the id starting
\* not ready), and a list of such commands alone leaves a fresh host.
C11_UnknownIdNoop ==
    status # "idle" =>
        /\ Outcome = OutcomeOf(ExecLoop(InitHost, Without(UnknownIdAt, commands, 1), 1))
        /\ (\A i \in 1..Len(commands) : UnknownIdAt(commands, i)) =>
             Outcome = OutcomeOf(InitHost) /\ done = Len(commands)
        /\ \A i \in 1..done :
             UnknownIdAt(commands, i) /\ commands[i].arg.id \in DOMAIN atlases =>
                \E j \in (i + 1)..done : /\ commands[j].tag = "create-atlas"
                                         /\ commands[j].arg.id = commands[i].arg.id

\* finalize-atlas 1 came before create-atlas 1: the atlas is not ready and
\* the draw-sprite after them has issued no draw call
C11_Witness ==
    /\ status = "returned"
    /\ commands = << Cmd("finalize-atlas", IdArg(1)),
                     Cmd("create-atlas", CreateArg(1, MetaB)),
                     Cmd("draw-sprite", SpriteArg(1, 10, 20, 1, 1, Tint2)) >>
    /\ done = 3
    /\ ~atlases[1].ready
    /\ NDraws(log) = 0

\* the i-th command is a finalize-atlas that repeats the command before it
RepeatedFinalizeAt(cmds, i) ==
    /\ i > 1
    /\ cmds[i].tag = "finalize-atlas"
    /\ ~IsUndefined(cmds[i].arg)
    /\ cmds[i - 1] = cmds[i]

\* C16: finalize-atlas is idempotent: the exec call leaves what the list
\* with every run of the same finalize-atlas reduced to one leaves; and in
\* the state it leaves, a further exec of finalize-atlas(id) twice leaves
\* what one leaves, and on a ready atlas issues no backend call, keeps
\* ready = true and changes nothing.
C16_FinalizeIdempotent ==
    status # "idle" =>
        /\ Outcome = OutcomeOf(ExecLoop(InitHost, Without(RepeatedFinalizeAt, commands, 1), 1))
        /\ \A id \in Ids :
            LET f == Cmd("finalize-atlas", IdArg(id))
            IN  /\ OutcomeOf(Run(<<f, f>>)) = OutcomeOf(Run(<<f>>))
                /\ AtlasReady(id) =>
                     /\ Run(<<f>>).out = <<>>
                     /\ Run(<<f>>).atlases = atlases
                     /\ Run(<<f>>).gl = gl

\* create-atlas 1 and two finalize-atlas 1 in succession were executed: the
\* atlas is ready and only create-atlas has called the backend
C16_Witness ==
    /\ status = "returned"
    /\ commands = << Cmd("create-atlas", CreateArg(1, MetaB)),
                     Cmd("finalize-atlas", IdArg(1)),
                     Cmd("finalize-atlas", IdArg(1)) >>
    /\ done = 3
    /\ atlases[1].ready
    /\ Len(log) = 3
    /\ log[3].op = "texImage2D"

----------------------------------------------------------------------------
(* C19, C20: the shared context state and the registry, under Spec *)

\* the texture, UV buffer and rectangle each draw call of a well-formed draw
\* command has to read, in the order of the calls; none if the atlas is not
\* ready
ExpectedReads(c) ==
    IF ~AtlasReady(c.arg.atlasId) THEN <<>>
    ELSE LET e == atlases[c.arg.atlasId]
             a == c.arg
         IN  IF c.tag = "draw-sprite"
             THEN << <<e.tex, QuadUV(TileRect(e, a.tileIndex, a.flip)),
                       <<a.x, a.y, e.tileW, e.tileH>> >> >>
             ELSE [k \in 1..(a.gridW * a.gridH) |->
                     <<e.tex, QuadUV(TileRect(e, a.tiles[k], 0)),
                       <<a.x + ((k - 1) % a.gridW) * a.cellW,
                         a.y + ((k - 1) \div a.gridW) * a.cellH, a.cellW, a.cellH>> >>]

\* what the draw calls among the operations read: bound texture, UV buffer,
\* rectangle uniform
ReadsOfDraws(d) == [k \in 1..Len(d) |-> <<d[k].tex, d[k].uvData, d[k].rect>>]
ReadsOf(ops) == ReadsOfDraws(DrawOps(ops))

WellFormedDraws == WellFormedSprites \cup WellFormedTiles

\* C19: at every draw call the bound texture is the handle of the atlas its
\* command names, the UV buffer holds the rectangle of its tile index and
\* flip, and the rectangle uniform is its destination rectangle: in every
\* state, whatever create-atlas, upload-atlas-chunk and draw commands on
\* other atlases left bound, each draw command alone, and each draw command
\* after a draw command on another atlas, reads its own values at every one
\* of its draw calls.
C19_DrawReadsOwnState ==
    \A c \in WellFormedDraws :
        /\ ReadsOf(Run(<<c>>).out) = ExpectedReads(c)
        /\ \A b \in WellFormedSprites \cup {t \in WellFormedTiles : t.arg.gridW * t.arg.gridH > 2} :
             b.arg.atlasId # c.arg.atlasId =>
                ReadsOf(Run(<<b, c>>).out) = ExpectedReads(b) \o ExpectedReads(c)

\* an upload-atlas-chunk on atlas 1 has just rebound the texture while
\* atlas 2 is ready: a draw on atlas 2 executed now binds atlas 2's handle
C19_Witness ==
    /\ status = "returned"
    /\ AtlasReady(2)
    /\ 1 \in DOMAIN atlases
    /\ Len(log) = 1
    /\ log[1].op = "texSubImage2D"
    /\ gl.texture2D = atlases[1].tex
    /\ atlases[1].tex # atlases[2].tex
    /\ NDraws(Run(<<Cmd("draw-tiles", TilesArg(2, 5, 9, MaxGrid, 2, TRUE))>>).out) = 2 * MaxGrid

LifecycleRecords ==
    {c \in CreateCmds \cup UploadCmds \cup FinalizeCmds : ~IsUndefined(c.arg)}

\* C20: create-atlas, upload-atlas-chunk and finalize-atlas for one id leave
\* the entry (metadata, ready flag, texture handle) of every atlas with
\* another id as it is, and draw-sprite and draw-tiles, effective or
\* ignored, leave the registry, the camera matrix and the logical and
\* physical dimensions as they are.
C20_Isolation ==
    /\ \A c \in LifecycleRecords :
         \A r \in {Run(<<c>>)} :
             \A id \in DOMAIN atlases \ {c.arg.id} :
                 /\ id \in DOMAIN r.atlases
                 /\ r.atlases[id] = atlases[id]
    /\ \A c \in WellFormedDraws :
         \A r \in {Run(<<c>>)} :
             /\ r.atlases = atlases
             /\ r.camWasm = camWasm
             /\ <<r.physW, r.physH>> = <<physW, physH>>
             /\ <<r.logicalW, r.logicalH>> = <<logicalW, logicalH>>

\* create-atlas 2 was executed after atlas 1 had been finalized: atlas 1 is
\* still ready, with its own metadata and handle
C20_Witness ==
    /\ status = "returned"
    /\ AtlasReady(1)
    /\ 2 \in DOMAIN atlases
    /\ ~atlases[2].ready
    /\ atlases[1].tex = 1
    /\ atlases[2].tex = 2
    /\ atlases[1].width = MetaA.width
    /\ atlases[2].width = MetaB.width
    /\ Len(log) = 3
    /\ log[1].op = "createTexture"
    /\ log[1].tex = 2

====
